---- MODULE Spec2Model ----
(***************************************************************************)
(* A model of the reactive binding engine of src/main.cpp: typed value     *)
(* nodes (TypedBinding / TypedBindedValue), derived nodes (TypedBindedExpr),*)
(* the subscriber lists m_refs, the set/update/get/dispatch call chain,    *)
(* and construction / destruction through reference-counted handles.       *)
(*                                                                         *)
(* The program is single threaded and every operation is a synchronous     *)
(* call chain, so one action is one call made by client code.  The call    *)
(* chain itself is computed by the mutually recursive operators set,       *)
(* notify, update, dispatch and get, which thread the heap through the     *)
(* calls in the order the C++ code makes them and record every step in a   *)
(* trace.  Recursion deeper than MaxDepth is a stack overflow.             *)
(***************************************************************************)
EXTENDS Integers, Sequences, FiniteSets

\* ----------------------------------------------------------------- bounds
MaxNodes == 4      \* node slots (addresses) available to the client
MaxSmall == 3      \* nodes alive at once in the specifications with free policies
MaxVal   == 1      \* leaves are assigned values in 0..MaxVal
MaxDepth == 12     \* nesting of update()/get() calls the stack can hold

Slots  == 1..MaxNodes
Values == 0..MaxVal

\* ---------------------------------------------------------------- policies
\* enum class BindingCompPolicy
CompPolicies == {"NotEqual", "Equal", "Always", "Count"}
\* enum class BindingEvalPolicy
EvalPolicies == {"Instant", "Lazy", "Count"}

\* The functions client code binds: std::plus<> (operator+) and a
\* non-commutative, non-injective one.
Functions == {"plus", "minus"}

Apply(f, a) ==
    CASE f = "plus"  -> a[1] + a[2]
      [] f = "minus" -> a[1] - a[2]

Arity(f) == 2

\* ------------------------------------------------------------------- state
VARIABLES
    heap,      \* slot -> the object stored there (or a free slot)
    held,      \* slot -> client code holds a TypedBindingPtr to the node
    op,        \* the last call client code made
    trace,     \* the steps that call took, in order
    result,    \* the value the last call returned
    crashed    \* the last call overflowed the stack

vars == <<heap, held, op, trace, result, crashed>>

FreeSlot ==
    [kind |-> "free", m_value |-> 0, m_comp_policy |-> "NotEqual", m_refs |-> <<>>,
     m_eval_policy |-> "Instant", m_function |-> "plus", m_arguments |-> <<>>,
     m_dirty |-> FALSE]

Range(s) == {s[i] : i \in 1..Len(s)}

Live(h, n)   == h[n].kind # "free"
IsExpr(h, n) == h[n].kind = "expr"

\* One step of a call chain: what happened, to which node, with which value
\* and arguments, and how deeply nested the update()/get() calls were.
\*   set    set(val) entered; args holds the value stored at that moment
\*   store  m_value = val
\*   update update() entered
\*   mark   m_dirty = true
\*   call   m_function(args) returned val
\*   get    get() entered
\*   clear  m_dirty = false
\*   ret    get() returned val
Event(e, n, v, a, l) == [ev |-> e, node |-> n, val |-> v, args |-> a, lvl |-> l]

Log(st, e, n, v, a, d) ==
    [st EXCEPT !.trace = Append(@, Event(e, n, v, a, MaxDepth - d))]

Overflow(st) == [st EXCEPT !.ovf = TRUE]

\* ------------------------------------------------------------ TypedBinding
\* Mutant: every value is judged different.
different_always(h, n, other) == TRUE

\* Mutant: Always and Count compare like NotEqual.
different_by_value(h, n, other) == h[n].m_value # other

different_with(h, n, other) ==
    CASE h[n].m_comp_policy = "NotEqual" -> h[n].m_value # other
      [] h[n].m_comp_policy = "Equal"    -> ~(h[n].m_value = other)
      [] OTHER                           -> TRUE

RECURSIVE set(_, _, _, _), notify(_, _, _, _), update(_, _, _),
          dispatch(_, _, _, _, _), get(_, _, _)

\* Mutant: the subscribers are notified before the value is stored.
set_notify_first(st, n, v, d) ==
    LET s0 == Log(st, "set", n, v, <<st.heap[n].m_value>>, d) IN
    IF different_with(s0.heap, n, v)
    THEN LET s1 == notify(s0, n, 1, d)
         IN  IF s1.ovf THEN s1
             ELSE Log([s1 EXCEPT !.heap[n].m_value = v], "store", n, v, <<>>, d)
    ELSE s0

set(st, n, v, d) ==
    LET s0 == Log(st, "set", n, v, <<st.heap[n].m_value>>, d) IN
    IF different_with(s0.heap, n, v)
    THEN notify(Log([s0 EXCEPT !.heap[n].m_value = v], "store", n, v, <<>>, d), n, 1, d)
    ELSE s0

\* Mutant: only the first subscriber is notified.
notify_first_only(st, n, i, d) ==
    IF st.ovf \/ i > Len(st.heap[n].m_refs) \/ i > 1
    THEN st
    ELSE update(st, st.heap[n].m_refs[i], d)

notify(st, n, i, d) ==
    IF st.ovf \/ i > Len(st.heap[n].m_refs)
    THEN st
    ELSE notify(update(st, st.heap[n].m_refs[i], d), n, i + 1, d)

\* ---------------------------------------------------------- TypedBindedExpr
\* Mutant: a Lazy node recomputes on notification like an Instant one.
update_eager(st, e, d) ==
    IF d = 0 THEN Overflow(st)
    ELSE LET s0 == Log(st, "update", e, 0, <<>>, d) IN
         IF s0.heap[e].m_eval_policy \in {"Instant", "Lazy"}
         THEN LET r == dispatch(s0, e, 1, <<>>, d - 1)
              IN  IF r.ovf THEN r ELSE set(r, e, r.ret, d - 1)
         ELSE s0

\* Mutant: the notification of a Lazy node is dropped.
update_unmarked(st, e, d) ==
    IF d = 0 THEN Overflow(st)
    ELSE LET s0 == Log(st, "update", e, 0, <<>>, d) IN
         IF s0.heap[e].m_eval_policy = "Instant"
         THEN LET r == dispatch(s0, e, 1, <<>>, d - 1)
              IN  IF r.ovf THEN r ELSE set(r, e, r.ret, d - 1)
         ELSE s0

update(st, e, d) ==
    IF d = 0 THEN Overflow(st)
    ELSE LET s0 == Log(st, "update", e, 0, <<>>, d) IN
         CASE s0.heap[e].m_eval_policy = "Instant" ->
                LET r == dispatch(s0, e, 1, <<>>, d - 1)
                IN  IF r.ovf THEN r ELSE set(r, e, r.ret, d - 1)
           [] s0.heap[e].m_eval_policy = "Lazy" ->
                Log([s0 EXCEPT !.heap[e].m_dirty = TRUE], "mark", e, 0, <<>>, d)
           [] OTHER -> s0

\* Mutant: the function receives the inputs' values in reverse order.
dispatch_reversed(st, e, i, acc, d) ==
    IF st.ovf THEN st
    ELSE IF i > Len(st.heap[e].m_arguments)
    THEN LET rev == [k \in 1..Len(acc) |-> acc[Len(acc) + 1 - k]]
             v == Apply(st.heap[e].m_function, rev)
         IN  [Log(st, "call", e, v, rev, d) EXCEPT !.ret = v]
    ELSE LET r == get(st, st.heap[e].m_arguments[i], d)
         IN  dispatch(r, e, i + 1, Append(acc, r.ret), d)

dispatch(st, e, i, acc, d) ==
    IF st.ovf THEN st
    ELSE IF i > Len(st.heap[e].m_arguments)
    THEN LET v == Apply(st.heap[e].m_function, acc)
         IN  [Log(st, "call", e, v, acc, d) EXCEPT !.ret = v]
    ELSE LET r == get(st, st.heap[e].m_arguments[i], d)
         IN  dispatch(r, e, i + 1, Append(acc, r.ret), d)

get(st, n, d) ==
    IF d = 0 THEN Overflow(st)
    ELSE LET s0 == Log(st, "get", n, 0, <<>>, d)
             s1 == IF IsExpr(s0.heap, n) /\ s0.heap[n].m_dirty
                   THEN LET r == dispatch(s0, n, 1, <<>>, d - 1)
                            s == IF r.ovf THEN r ELSE set(r, n, r.ret, d - 1)
                        IN  IF s.ovf THEN s
                            ELSE Log([s EXCEPT !.heap[n].m_dirty = FALSE],
                                     "clear", n, 0, <<>>, d)
                   ELSE s0
         IN  IF s1.ovf THEN s1
             ELSE [Log(s1, "ret", n, s1.heap[n].m_value, <<>>, d)
                     EXCEPT !.ret = s1.heap[n].m_value]

\* uninstall_ref: remove every entry equal to e from the list.
RemoveAll(s, e) == SelectSeq(s, LAMBDA x : x # e)

\* Mutant: a subscriber already in the list is not added again.
install_once(h, e, arg) ==
    IF e \in Range(h[arg].m_refs) THEN h ELSE [h EXCEPT ![arg].m_refs = Append(@, e)]

install_ref(h, e, arg) == [h EXCEPT ![arg].m_refs = Append(@, e)]

\* Mutant: the destructor leaves the subscriber lists alone.
uninstall_nothing(h, e, arg) == h

uninstall_ref(h, e, arg) == [h EXCEPT ![arg].m_refs = RemoveAll(@, e)]

RECURSIVE process_refs(_, _, _, _)
process_refs(h, e, install, i) ==
    IF i > Len(h[e].m_arguments) THEN h
    ELSE process_refs(IF install THEN install_ref(h, e, h[e].m_arguments[i])
                                 ELSE uninstall_ref(h, e, h[e].m_arguments[i]),
                      e, install, i + 1)

\* The state a call chain starts from.
Start(h) == [heap |-> h, trace |-> <<>>, ret |-> 0, ovf |-> FALSE]

\* TypedBindedValue(T value): a default-initialised TypedBinding, then set(value).
ValueCtor(h, n, v) ==
    set(Start([h EXCEPT ![n] = [FreeSlot EXCEPT !.kind = "value"]]), n, v, MaxDepth)

\* TypedBindedExpr(function, arguments...)
ExprCtor(h, n, f, a) ==
    LET h0 == [h EXCEPT ![n] = [FreeSlot EXCEPT !.kind = "expr", !.m_function = f,
                                                !.m_arguments = a]]
        h1 == [h0 EXCEPT ![n].m_dirty = (h0[n].m_eval_policy = "Instant")]
        h2 == process_refs(h1, n, TRUE, 1)
    IN  update(Start(h2), n, MaxDepth)

\* Mutant: the handles in m_arguments do not own the inputs.
UseCount_handles_only(h, hd, n) == IF hd[n] THEN 1 ELSE 0

\* The use count of the shared_ptr control block of n: the client's handle
\* and one handle per argument position of a derived node bound to n.
UseCount(h, hd, n) ==
    (IF hd[n] THEN 1 ELSE 0)
    + Cardinality(UNION {{<<e, i>> : i \in {j \in 1..Len(h[e].m_arguments) :
                                                h[e].m_arguments[j] = n}} : e \in Slots})

\* ~TypedBindedExpr, then the release of the handles in m_arguments, which
\* destroys every input whose use count drops to zero.
RECURSIVE Destroy(_, _, _), DestroyAll(_, _, _)
Destroy(h, hd, n) ==
    LET h1 == IF IsExpr(h, n) THEN process_refs(h, n, FALSE, 1) ELSE h
        h2 == [h1 EXCEPT ![n] = FreeSlot]
        dead == {a \in Range(h[n].m_arguments) : UseCount(h2, hd, a) = 0}
    IN  DestroyAll(h2, hd, dead)

DestroyAll(h, hd, S) ==
    IF S = {} THEN h
    ELSE LET a == CHOOSE x \in S : TRUE
         IN  DestroyAll(Destroy(h, hd, a), hd, S \ {a})

\* ----------------------------------------------------------------- actions
\* A call of client code: on which node, and with which value (for a
\* release: 1 when it destroyed a derived node, else 0).
Call(name, n, v) == [name |-> name, node |-> n, val |-> v]

\* The outcome of a call chain becomes the next state; a stack overflow ends
\* the program.
Finish(st, returned) ==
    IF st.ovf
    THEN /\ crashed' = TRUE
         /\ trace' = <<>>
         /\ result' = 0
         /\ UNCHANGED heap
    ELSE /\ crashed' = FALSE
         /\ heap' = st.heap
         /\ trace' = st.trace
         /\ result' = returned

FreeSlots == {n \in Slots : ~Live(heap, n)}
Fresh == CHOOSE n \in FreeSlots : \A m \in FreeSlots : n <= m

Init ==
    /\ heap = [n \in Slots |-> FreeSlot]
    /\ held = [n \in Slots |-> FALSE]
    /\ op = Call("none", 0, 0)
    /\ trace = <<>>
    /\ result = 0
    /\ crashed = FALSE

\* TypedBindedValuePtr<T> a = v;
NewValue(v) ==
    /\ ~crashed
    /\ FreeSlots # {}
    /\ op' = Call("new_value", Fresh, v)
    /\ held' = [held EXCEPT ![Fresh] = TRUE]
    /\ Finish(ValueCtor(heap, Fresh, v), 0)

\* TypedBindedExprPtr<Ret, Params...> e(f, a...);
NewExpr(f, a) ==
    /\ ~crashed
    /\ FreeSlots # {}
    /\ \A i \in 1..Len(a) : held[a[i]]
    /\ op' = Call("new_expr", Fresh, 0)
    /\ Finish(ExprCtor(heap, Fresh, f, a), 0)
    /\ held' = IF crashed' THEN held ELSE [held EXCEPT ![Fresh] = TRUE]

\* a = v;  (TypedBindedValuePtr::operator=)
Assign(n, v) ==
    /\ ~crashed
    /\ held[n] /\ heap[n].kind = "value"
    /\ op' = Call("set", n, v)
    /\ Finish(set(Start(heap), n, v, MaxDepth), 0)
    /\ UNCHANGED held

\* T(e)  (TypedBindingPtr::operator T)
Read(n) ==
    /\ ~crashed
    /\ held[n]
    /\ op' = Call("get", n, 0)
    /\ LET st == get(Start(heap), n, MaxDepth) IN Finish(st, st.ret)
    /\ UNCHANGED held

\* a->m_comp_policy = p;
SetCompPolicy(n, p) ==
    /\ ~crashed
    /\ held[n]
    /\ heap[n].m_comp_policy # p
    /\ op' = Call("comp_policy", n, 0)
    /\ heap' = [heap EXCEPT ![n].m_comp_policy = p]
    /\ trace' = <<>>
    /\ result' = 0
    /\ UNCHANGED <<held, crashed>>

\* pe->m_eval_policy = p;
SetEvalPolicy(e, p) ==
    /\ ~crashed
    /\ held[e] /\ IsExpr(heap, e)
    /\ heap[e].m_eval_policy # p
    /\ op' = Call("eval_policy", e, 0)
    /\ heap' = [heap EXCEPT ![e].m_eval_policy = p]
    /\ trace' = <<>>
    /\ result' = 0
    /\ UNCHANGED <<held, crashed>>

\* The client's handle to n goes out of scope.
Release(n) ==
    /\ ~crashed
    /\ held[n]
    /\ held' = [held EXCEPT ![n] = FALSE]
    /\ op' = Call("release", n,
                   IF IsExpr(heap, n) /\ UseCount(heap, held', n) = 0 THEN 1 ELSE 0)
    /\ heap' = IF UseCount(heap, held', n) = 0 THEN Destroy(heap, held', n) ELSE heap
    /\ trace' = <<>>
    /\ result' = 0
    /\ UNCHANGED crashed

ArgLists(f) == [1..Arity(f) -> Slots]

NodeCount == Cardinality({n \in Slots : Live(heap, n)})

\* Construction, assignment, reading and release with the policies the
\* constructors set (NotEqual, Instant).
NextLife ==
    \/ \E v \in Values : NodeCount < MaxSmall /\ NewValue(v)
    \/ \E f \in Functions : \E a \in ArgLists(f) : NodeCount < MaxSmall /\ NewExpr(f, a)
    \/ \E n \in Slots : \E v \in Values : Assign(n, v)
    \/ \E n \in Slots : Read(n)
    \/ \E n \in Slots : Release(n)

SpecLife == Init /\ [][NextLife]_vars

\* The same with any change-detection policy on any node; every derived node
\* keeps the evaluation policy Instant.
NextInstant ==
    \/ \E v \in Values : NodeCount < MaxSmall /\ NewValue(v)
    \/ \E f \in Functions : \E a \in ArgLists(f) : NodeCount < MaxSmall /\ NewExpr(f, a)
    \/ \E n \in Slots : \E v \in Values : Assign(n, v)
    \/ \E n \in Slots : Read(n)
    \/ \E n \in Slots : Release(n)
    \/ \E n \in Slots : \E p \in CompPolicies : SetCompPolicy(n, p)

SpecInstant == Init /\ [][NextInstant]_vars

\* The same with any evaluation policy on any derived node; every node keeps
\* the change-detection policy NotEqual.
NextLazy ==
    \/ \E v \in Values : NodeCount < MaxSmall /\ NewValue(v)
    \/ \E f \in Functions : \E a \in ArgLists(f) : NodeCount < MaxSmall /\ NewExpr(f, a)
    \/ \E n \in Slots : \E v \in Values : Assign(n, v)
    \/ \E n \in Slots : Read(n)
    \/ \E n \in Slots : Release(n)
    \/ \E e \in Slots : \E p \in EvalPolicies : SetEvalPolicy(e, p)

SpecLazy == Init /\ [][NextLazy]_vars

\* Graphs of up to MaxNodes nodes built over one leaf with operator+, whose
\* derived nodes are switched between Instant and Lazy.
NextDeep ==
    \/ \E v \in Values : NodeCount = 0 /\ NewValue(v)
    \/ \E a \in ArgLists("plus") : NewExpr("plus", a)
    \/ \E n \in Slots : \E v \in Values : Assign(n, v)
    \/ \E n \in Slots : Read(n)
    \/ \E e \in Slots : \E p \in {"Instant", "Lazy"} : SetEvalPolicy(e, p)

SpecDeep == Init /\ [][NextDeep]_vars

\* Every call client code can make.
Next ==
    \/ \E v \in Values : NewValue(v)
    \/ \E f \in Functions : \E a \in ArgLists(f) : NewExpr(f, a)
    \/ \E n \in Slots : \E v \in Values : Assign(n, v)
    \/ \E n \in Slots : Read(n)
    \/ \E n \in Slots : \E p \in CompPolicies : SetCompPolicy(n, p)
    \/ \E e \in Slots : \E p \in EvalPolicies : SetEvalPolicy(e, p)
    \/ \E n \in Slots : Release(n)

Spec == Init /\ [][Next]_vars

\* ------------------------------------------------------- trace vocabulary
InputValues(h, e) == [i \in 1..Len(h[e].m_arguments) |-> h[h[e].m_arguments[i]].m_value]

Current(h, e) == Apply(h[e].m_function, InputValues(h, e))

Occurs(tr, e, n) == \E i \in 1..Len(tr) : tr[i].ev = e /\ tr[i].node = n

Times(tr, e, n) == Cardinality({i \in 1..Len(tr) : tr[i].ev = e /\ tr[i].node = n})

Entries(s, x) == Cardinality({i \in 1..Len(s) : s[i] = x})

\* The last step of the call that made step i: the steps after i up to the
\* first one that is less deeply nested.
LastOf(tr, i) ==
    LET out == {j \in (i + 1)..Len(tr) : tr[j].lvl < tr[i].lvl}
    IN  IF out = {} THEN Len(tr)
        ELSE (CHOOSE j \in out : \A k \in out : j <= k) - 1

\* The nodes whose update() the set call storing at step i called, in order.
NotifiedBy(tr, i) ==
    LET seg == SubSeq(tr, i + 1, LastOf(tr, i))
        ups == SelectSeq(seg, LAMBDA x : x.ev = "update" /\ x.lvl = tr[i].lvl)
    IN  [k \in 1..Len(ups) |-> ups[k].node]

\* ------------------------------------------------------------------ claims

\* C1: in a graph whose derived nodes all have the evaluation policy Instant
\* (SpecInstant), whenever a call has returned, every derived node's cached
\* value is its function applied to the values now stored in its inputs, and
\* get() on it returns that value, also where two paths from one leaf
\* reconverge; no read is needed to bring the value up to date.
C1_InstantCurrent ==
    ~crashed =>
        \A e \in Slots :
            (IsExpr(heap, e) /\ heap[e].m_eval_policy = "Instant") =>
                /\ heap[e].m_value = Current(heap, e)
                /\ LET g == get(Start(heap), e, MaxDepth)
                   IN  ~g.ovf => (g.ret = Current(heap, e) /\ g.ret = Current(g.heap, e))

\* A set on a leaf changed a node that the leaf reaches both directly and
\* through another derived node.
C1_Witness ==
    /\ op.name = "set" /\ ~crashed
    /\ \E e \in Slots : \E x \in Slots :
          /\ e # x /\ IsExpr(heap, e) /\ IsExpr(heap, x)
          /\ op.node \in Range(heap[x].m_arguments)
          /\ x \in Range(heap[e].m_arguments)
          /\ op.node \in Range(heap[e].m_arguments)
          /\ Occurs(trace, "store", x)
          /\ Occurs(trace, "store", e)
          /\ ~Occurs(trace, "get", e)

\* C2: a set whose value the policy NotEqual or Equal judges not different
\* changes nothing: a call from client code leaves the whole heap (values,
\* dirty flags) as it was and consists of the comparison alone, and a set
\* made inside a call chain is followed by no store, no update() and no
\* function call of its own.
C2_NotDifferentNoEffect ==
    [][ /\ (/\ op'.name = "set" /\ ~crashed'
            /\ heap[op'.node].m_comp_policy \in {"NotEqual", "Equal"}
            /\ heap[op'.node].m_value = op'.val)
           => (heap' = heap /\ Len(trace') = 1 /\ trace'[1].ev = "set")
        /\ \A i \in 1..Len(trace') :
              (/\ trace'[i].ev = "set"
               /\ heap'[trace'[i].node].m_comp_policy \in {"NotEqual", "Equal"}
               /\ trace'[i].args[1] = trace'[i].val)
                 => (i < Len(trace') => trace'[i + 1].lvl < trace'[i].lvl)
      ]_vars

\* A leaf with a subscriber was set to the value it already held.
C2_Witness ==
    /\ op.name = "set" /\ ~crashed
    /\ heap[op.node].m_comp_policy \in {"NotEqual", "Equal"}
    /\ heap[op.node].m_refs # <<>>
    /\ trace = <<Event("set", op.node, op.val, <<op.val>>, 0)>>

\* C3: a set judged different stores the value first and then calls update()
\* on every entry of the node's m_refs, in list order, before it returns:
\* every store in a trace directly follows the set's comparison, and the
\* update() calls that set makes are exactly m_refs, in order.
C3_StoreThenNotifyInOrder ==
    \A i \in 1..Len(trace) :
        trace[i].ev = "store" =>
            /\ i > 1
            /\ trace[i - 1].ev = "set"
            /\ trace[i - 1].node = trace[i].node
            /\ trace[i - 1].val = trace[i].val
            /\ trace[i - 1].lvl = trace[i].lvl
            /\ NotifiedBy(trace, i) = heap[trace[i].node].m_refs

\* A leaf with two different subscribers was set to a new value.
C3_Witness ==
    /\ op.name = "set" /\ ~crashed
    /\ Len(trace) > 1 /\ trace[2].ev = "store"
    /\ Cardinality(Range(heap[op.node].m_refs)) > 1
    /\ NotifiedBy(trace, 2) = heap[op.node].m_refs

\* The Instant derived nodes that have node a among their inputs.
InstantReaders(h, a) ==
    {e \in Slots : IsExpr(h, e) /\ h[e].m_eval_policy = "Instant"
                   /\ a \in Range(h[e].m_arguments)}

LeafInputsOnly(h, e) == \A x \in Range(h[e].m_arguments) : h[x].kind = "value"

\* C4 as stated: after a set on a leaf whose policy is Always, the function
\* of every Instant derived node that reads the leaf has been invoked
\* exactly once.
C4_OncePerSet ==
    (op.name = "set" /\ ~crashed /\ heap[op.node].m_comp_policy = "Always") =>
        \A e \in InstantReaders(heap, op.node) : Times(trace, "call", e) = 1

\* C4 as amended: after a set on a leaf whose policy is Always, whatever the
\* value passed, the function of every Instant derived node that reads the
\* leaf has been invoked at least once, and that of a node all of whose
\* inputs are leaves once for each of its entries in the leaf's m_refs
\* (once if it reads the leaf in one argument, twice if in two).
C4_OncePerEntry ==
    (op.name = "set" /\ ~crashed /\ heap[op.node].m_comp_policy = "Always") =>
        \A e \in InstantReaders(heap, op.node) :
            /\ Times(trace, "call", e) >= 1
            /\ LeafInputsOnly(heap, e) =>
                  Times(trace, "call", e) = Entries(heap[op.node].m_refs, e)

\* An Always leaf was set to the value it already held, and a derived node
\* that reads it in one argument was invoked once.
C4_Witness ==
    /\ op.name = "set" /\ ~crashed
    /\ heap[op.node].m_comp_policy = "Always"
    /\ trace[1].args[1] = op.val
    /\ \E e \in InstantReaders(heap, op.node) :
          /\ LeafInputsOnly(heap, e)
          /\ Entries(heap[op.node].m_refs, e) = 1
          /\ Times(trace, "call", e) = 1

\* The derived nodes that were Lazy when the call started and whose update()
\* the call ran.
NotifiedLazy(h, tr) ==
    {l \in Slots : IsExpr(h, l) /\ h[l].m_eval_policy = "Lazy" /\ Occurs(tr, "update", l)}

\* What C5 says of a notified Lazy node once the set has returned: it keeps
\* its old cached value, is dirty, was not recomputed and notified nobody.
OnlyMarked(h, h2, tr, l) ==
    /\ h2[l].m_value = h[l].m_value
    /\ h2[l].m_dirty
    /\ ~Occurs(tr, "call", l)
    /\ ~Occurs(tr, "set", l)

\* C5 as stated: when a set on a leaf notifies a Lazy derived node, the node
\* has, when the set returns, its old cached value and a true dirty flag,
\* its function was not invoked and it notified none of its subscribers.
C5_LazyOnlyMarked ==
    [][ (op'.name = "set" /\ ~crashed') =>
            \A l \in NotifiedLazy(heap, trace') : OnlyMarked(heap, heap', trace', l)
      ]_vars

\* C5 as amended: the same, for every notified Lazy node whose get() no
\* other node called during the set.
C5_LazyOnlyMarkedUnlessRead ==
    [][ (op'.name = "set" /\ ~crashed') =>
            \A l \in NotifiedLazy(heap, trace') :
                ~Occurs(trace', "get", l) => OnlyMarked(heap, heap', trace', l)
      ]_vars

\* A set has returned leaving a Lazy node that has a subscriber dirty and
\* stale, nobody having read it.
C5_Witness ==
    /\ op.name = "set" /\ ~crashed
    /\ \E l \in NotifiedLazy(heap, trace) :
          /\ ~Occurs(trace, "get", l)
          /\ heap[l].m_dirty
          /\ heap[l].m_value # Current(heap, l)
          /\ heap[l].m_refs # <<>>

\* get() from client code found a Lazy derived node dirty.
DirtyLazyGet ==
    /\ op.name = "get" /\ ~crashed
    /\ IsExpr(heap, op.node)
    /\ heap[op.node].m_eval_policy = "Lazy"
    /\ Len(trace) > 2

\* C6: get() on a dirty Lazy derived node returns its function applied to
\* the values get() now returns for its inputs, having passed that value to
\* set, and leaves the node holding it with the dirty flag false.
C6_LazyGetRecomputes ==
    DirtyLazyGet =>
        /\ result = dispatch(Start(heap), op.node, 1, <<>>, MaxDepth).ret
        /\ heap[op.node].m_value = result
        /\ ~heap[op.node].m_dirty
        /\ \E i \in 1..Len(trace) :
              trace[i].ev = "set" /\ trace[i].node = op.node /\ trace[i].val = result

\* C7: a get() on a dirty Lazy derived node invokes the node's function
\* exactly once, whatever dependents the node has.
C7_OneRecomputationPerGet ==
    DirtyLazyGet => Times(trace, "call", op.node) = 1

\* C10: when a constructor has returned, the new derived node is registered
\* once per argument with each input, its cached value is its function
\* applied to the values its inputs now hold, and its dirty flag is true.
C10_Constructed ==
    (op.name = "new_expr" /\ ~crashed) =>
        /\ IsExpr(heap, op.node)
        /\ \A x \in Slots :
              Live(heap, x) =>
                  Entries(heap[x].m_refs, op.node) = Entries(heap[op.node].m_arguments, x)
        /\ heap[op.node].m_value = Current(heap, op.node)
        /\ heap[op.node].m_dirty

\* C8: every entry of every subscriber list refers to a live derived node
\* that has the list's owner among its inputs, a destroyed node is in no
\* list, and no call ran update() on a slot that holds no derived node.
C8_NoDanglingSubscriber ==
    /\ \A n \in Slots : \A i \in 1..Len(heap[n].m_refs) :
          /\ Live(heap, n)
          /\ IsExpr(heap, heap[n].m_refs[i])
          /\ n \in Range(heap[heap[n].m_refs[i]].m_arguments)
    /\ \A i \in 1..Len(trace) : trace[i].ev = "update" => IsExpr(heap, trace[i].node)

\* A derived node has just been destroyed while another one is still
\* subscribed to a live input.
C8_Witness ==
    /\ op.name = "release" /\ op.val = 1
    /\ ~Live(heap, op.node)
    /\ \E a \in Slots : Live(heap, a) /\ heap[a].m_refs # <<>>

\* C9: a live derived node e has as many entries in a node's m_refs as it
\* has arguments bound to that node, and a slot holding no derived node has
\* none.
C9_EntriesMatchArguments ==
    \A e \in Slots : \A i \in Slots :
        Entries(heap[i].m_refs, e) =
            IF IsExpr(heap, e) THEN Entries(heap[e].m_arguments, i) ELSE 0

\* A derived node has just been destroyed while another one is listed twice
\* by the input it reads twice.
C9_Witness ==
    /\ op.name = "release" /\ op.val = 1
    /\ ~Live(heap, op.node)
    /\ \E e \in Slots : \E i \in Slots : IsExpr(heap, e) /\ Entries(heap[i].m_refs, e) = 2

\* C11: get() from client code on a derived node whose evaluation policy is
\* Instant only returns the cached value: the call consists of the entry and
\* the return of get() alone (no function call, no set, no update(), no
\* store, no change of the dirty flag) and returns the value the node's
\* function gives for the values stored in its inputs.
C11_InstantGetOnlyReturns ==
    (/\ op.name = "get" /\ ~crashed
     /\ IsExpr(heap, op.node) /\ heap[op.node].m_eval_policy = "Instant") =>
        /\ \A i \in 1..Len(trace) : trace[i].ev \in {"get", "ret"}
        /\ Len(trace) = 2
        /\ result = Current(heap, op.node)

\* The policies C12 speaks of: no node has a sentinel Count policy.
ClaimedPolicies(h) ==
    \A n \in Slots :
        Live(h, n) =>
            /\ h[n].m_comp_policy \in {"NotEqual", "Equal", "Always"}
            /\ IsExpr(h, n) => h[n].m_eval_policy \in {"Instant", "Lazy"}

\* C12: while every node has a change-detection policy among NotEqual, Equal
\* and Always and every derived node an evaluation policy among Instant and
\* Lazy, every call of set, get or a constructor returns: none recurses
\* until the stack overflows (a graph is acyclic by construction, since a
\* derived node's inputs exist before it does).
C12_EveryCallReturns ==
    ClaimedPolicies(heap) => ~crashed

\* A chain a -> l -> d: leaf a is the only input of the Lazy node l, which
\* is the only input of the derived node d (Instant or Lazy).
Chain(h, a, l, d) ==
    /\ h[a].kind = "value" /\ IsExpr(h, l) /\ IsExpr(h, d) /\ l # d
    /\ Range(h[l].m_arguments) = {a}
    /\ Range(h[d].m_arguments) = {l}
    /\ h[l].m_eval_policy = "Lazy"
    /\ h[d].m_eval_policy \in {"Instant", "Lazy"}

\* What d's function gives for what l's function gives for the value of a.
Through(h, a, l, d) ==
    LET lv == Apply(h[l].m_function, [j \in 1..Len(h[l].m_arguments) |-> h[a].m_value])
    IN  Apply(h[d].m_function, [i \in 1..Len(h[d].m_arguments) |-> lv])

\* C13: in a chain a -> l -> d with l Lazy, when a set on a that was judged
\* different is followed directly by get() on d (no get() on l in between),
\* that get() returns d's function applied to l's function applied to the
\* value now stored in a.
C13_PullThroughLazy ==
    [][ \A a \in Slots : \A l \in Slots : \A d \in Slots :
           (/\ op.name = "set" /\ op.node = a /\ ~crashed
            /\ Occurs(trace, "store", a)
            /\ Chain(heap, a, l, d)
            /\ op'.name = "get" /\ op'.node = d /\ ~crashed')
             => result' = Through(heap, a, l, d)
      ]_vars

\* The derived nodes that are Lazy before a call and still exist after it.
LazyAcross(h, h2) ==
    {l \in Slots : IsExpr(h, l) /\ h[l].m_eval_policy = "Lazy" /\ IsExpr(h2, l)}

\* Every update() a call ran on the Lazy node l raised its dirty flag at once.
MarkedOnUpdate(tr, l) ==
    \A i \in 1..Len(tr) :
        (tr[i].ev = "update" /\ tr[i].node = l) =>
            (i < Len(tr) /\ tr[i + 1].ev = "mark" /\ tr[i + 1].node = l)

\* C14 as stated: every update() on a Lazy node raises its dirty flag, and
\* the flag of a Lazy node goes from true to false only in a call of get()
\* made on that node: no set, get, construction or destruction called on
\* another node clears it.
C14_ClearedOnlyByOwnGet ==
    [][ ~crashed' =>
          \A l \in LazyAcross(heap, heap') :
              /\ MarkedOnUpdate(trace', l)
              /\ (heap[l].m_dirty /\ ~heap'[l].m_dirty) =>
                    (op'.name = "get" /\ op'.node = l)
      ]_vars

\* C14 as amended: every update() on a Lazy node raises its dirty flag, a
\* flag that went from false to true was raised by such an update(), and a
\* flag that went from true to false was cleared at the end of a get() on
\* that node, which client code called or which the evaluation of a
\* dependent made (while another node was set, read or constructed).
C14_ClearedOnlyInsideGet ==
    [][ ~crashed' =>
          \A l \in LazyAcross(heap, heap') :
              /\ MarkedOnUpdate(trace', l)
              /\ (~heap[l].m_dirty /\ heap'[l].m_dirty) =>
                    \E i \in 1..Len(trace') :
                        trace'[i].ev = "update" /\ trace'[i].node = l
              /\ (heap[l].m_dirty /\ ~heap'[l].m_dirty) =>
                    \E i \in 1..Len(trace') : \E j \in 1..Len(trace') :
                        /\ i < j
                        /\ trace'[i].ev = "get" /\ trace'[i].node = l
                        /\ trace'[j].ev = "clear" /\ trace'[j].node = l
                        /\ trace'[j].lvl = trace'[i].lvl
                        /\ j <= LastOf(trace', i) + 1
      ]_vars

\* A set on a leaf has marked a Lazy node, and an Instant node notified by
\* the same set has then read that node, which cleared the flag again.
C14_Witness ==
    /\ op.name = "set" /\ ~crashed
    /\ \E l \in Slots :
          /\ IsExpr(heap, l) /\ heap[l].m_eval_policy = "Lazy" /\ ~heap[l].m_dirty
          /\ \E i \in 1..Len(trace) : \E j \in 1..Len(trace) : \E k \in 1..Len(trace) :
                /\ i + 1 < j /\ j < k
                /\ trace[i].ev = "update" /\ trace[i].node = l
                /\ trace[i + 1].ev = "mark" /\ trace[i + 1].node = l
                /\ trace[j].ev = "get" /\ trace[j].node = l
                /\ trace[k].ev = "clear" /\ trace[k].node = l

\* The steps of a call chain that the set entered at step i made before it
\* returned.
CausedBy(tr, i) == SubSeq(tr, i + 1, LastOf(tr, i))

\* The sets a call chain made on Instant derived nodes whose policy compares
\* values (NotEqual or Equal), as steps of the trace.
ComparingSets(h, tr) ==
    {i \in 1..Len(tr) :
        /\ tr[i].ev = "set" /\ tr[i].lvl > 0
        /\ IsExpr(h, tr[i].node)
        /\ h[tr[i].node].m_eval_policy = "Instant"
        /\ h[tr[i].node].m_comp_policy \in {"NotEqual", "Equal"}}

\* C15: during a set on a leaf, when a notified Instant derived node with
\* policy NotEqual or Equal recomputes a value equal to its cached one, its
\* set does nothing at all (no store, no update() of a subscriber, hence no
\* recomputation or marking further downstream on its account); when the
\* value differs, the set stores it and calls update() on each of the node's
\* subscribers, in order, before the leaf's set returns.
C15_CutAtUnchangedNode ==
    (op.name = "set" /\ ~crashed) =>
        \A i \in ComparingSets(heap, trace) :
            IF trace[i].args[1] = trace[i].val
            THEN CausedBy(trace, i) = <<>>
            ELSE /\ i < Len(trace)
                 /\ trace[i + 1] = Event("store", trace[i].node, trace[i].val, <<>>,
                                         trace[i].lvl)
                 /\ NotifiedBy(trace, i + 1) = heap[trace[i].node].m_refs

\* One set on a leaf notified a derived node that has subscribers twice: the
\* first time its value changed and its subscribers were notified, the
\* second time it did not and nothing further happened.
C15_Witness ==
    /\ op.name = "set" /\ ~crashed
    /\ \E i \in ComparingSets(heap, trace) : \E j \in ComparingSets(heap, trace) :
          /\ i < j /\ trace[i].node = trace[j].node
          /\ heap[trace[i].node].m_refs # <<>>
          /\ trace[i].args[1] # trace[i].val
          /\ NotifiedBy(trace, i + 1) = heap[trace[i].node].m_refs
          /\ trace[j].args[1] = trace[j].val
          /\ CausedBy(trace, j) = <<>>

\* C16: a node whose change-detection policy is the sentinel Count treats
\* every set as different, like Always: whatever value is stored and
\* whatever value is passed, also an equal one, every set made on it in a
\* call chain stores the value and then calls update() on each of its
\* subscribers, in order.
C16_CountAlwaysDifferent ==
    ~crashed =>
        \A i \in 1..Len(trace) :
            (/\ trace[i].ev = "set"
             /\ Live(heap, trace[i].node)
             /\ heap[trace[i].node].m_comp_policy = "Count") =>
                /\ i < Len(trace)
                /\ trace[i + 1] = Event("store", trace[i].node, trace[i].val, <<>>,
                                        trace[i].lvl)
                /\ NotifiedBy(trace, i + 1) = heap[trace[i].node].m_refs
                /\ different_with(heap, trace[i].node, trace[i].val)
                /\ different_with(heap, trace[i].node, trace[i].args[1])

\* A leaf with policy Count and a subscriber was set to the value it already
\* held: the value was stored and the subscriber recomputed.
C16_Witness ==
    /\ op.name = "set" /\ ~crashed
    /\ heap[op.node].m_comp_policy = "Count"
    /\ heap[op.node].m_refs # <<>>
    /\ Len(trace) > 2
    /\ trace[1].args[1] = op.val
    /\ trace[2].ev = "store"
    /\ Occurs(trace, "call", heap[op.node].m_refs[1])

\* The live derived nodes that hold a handle to n in m_arguments.
Owners(h, n) == {e \in Slots : IsExpr(h, e) /\ n \in Range(h[e].m_arguments)}

\* C17: every input of a live derived node is live and every node client
\* code holds a handle to is live, so releasing the client's handles to a
\* node does not destroy it while a live derived node has it as an input;
\* and a node is alive only through a handle (the client's, or one in the
\* m_arguments of a live derived node): the entries other nodes' m_refs hold
\* of it do not keep it alive, a derived node whose last handle was released
\* is destroyed.
C17_Ownership ==
    /\ \A e \in Slots : IsExpr(heap, e) =>
          \A x \in Range(heap[e].m_arguments) : Live(heap, x)
    /\ \A n \in Slots : held[n] => Live(heap, n)
    /\ \A n \in Slots : Live(heap, n) => (held[n] \/ Owners(heap, n) # {})
    /\ (op.name = "release" /\ Owners(heap, op.node) = {}) => ~Live(heap, op.node)

\* Client code has released its handle to a node that a live derived node
\* reads: the node is still alive and still lists that derived node.
C17_Witness ==
    /\ op.name = "release"
    /\ ~held[op.node] /\ Live(heap, op.node)
    /\ Owners(heap, op.node) # {}
    /\ heap[op.node].m_refs # <<>>

\* The step that entered the update() or get() whose evaluation made step k:
\* the last step before k that is less deeply nested.
ParentOf(tr, k) ==
    CHOOSE p \in 0..(k - 1) :
        /\ p > 0 => tr[p].lvl < tr[k].lvl
        /\ \A j \in (p + 1)..(k - 1) : tr[j].lvl >= tr[k].lvl

\* The get() calls that evaluation made itself before step k, entries and
\* returns, in order.
DirectBefore(tr, k) ==
    SelectSeq(SubSeq(tr, ParentOf(tr, k) + 1, k - 1),
              LAMBDA x : x.lvl = tr[k].lvl /\ x.ev \in {"get", "ret"})

\* C18: every evaluation of a derived node with N inputs (by update() or by
\* get()) calls get() on input 1, then on input 2, ..., then on input N,
\* each once, and then invokes the function once, its i-th argument being
\* what the i-th get() returned: the value computed is f(in1, ..., inN).
C18_ArgumentsInOrder ==
    ~crashed =>
        \A k \in 1..Len(trace) :
            trace[k].ev = "call" =>
                LET e == trace[k].node
                    n == Len(heap[e].m_arguments)
                    p == ParentOf(trace, k)
                    g == DirectBefore(trace, k)
                IN  /\ p > 0
                    /\ trace[p].node = e /\ trace[p].ev \in {"update", "get"}
                    /\ \A k2 \in 1..Len(trace) :
                          (k2 # k /\ trace[k2].ev = "call") => ParentOf(trace, k2) # p
                    /\ Len(g) = 2 * n
                    /\ Len(trace[k].args) = n
                    /\ \A i \in 1..n :
                          /\ g[2 * i - 1].ev = "get"
                          /\ g[2 * i - 1].node = heap[e].m_arguments[i]
                          /\ g[2 * i].ev = "ret"
                          /\ g[2 * i].node = heap[e].m_arguments[i]
                          /\ trace[k].args[i] = g[2 * i].val
                    /\ trace[k].val = Apply(heap[e].m_function, trace[k].args)

\* A derived node that subtracts one input from a different one was
\* evaluated for inputs whose values differ, so that swapping the arguments
\* would have given another result.
C18_Witness ==
    /\ ~crashed
    /\ \E k \in 1..Len(trace) :
          /\ trace[k].ev = "call"
          /\ heap[trace[k].node].m_function = "minus"
          /\ heap[trace[k].node].m_arguments[1] # heap[trace[k].node].m_arguments[2]
          /\ trace[k].args[1] # trace[k].args[2]
          /\ trace[k].val = trace[k].args[1] - trace[k].args[2]
          /\ trace[k].val # trace[k].args[2] - trace[k].args[1]

\* C19: between calls, every derived node whose evaluation policy is Instant
\* or Lazy and whose dirty flag is false caches the value its function gives
\* for the values now stored in its inputs; a stale cached value comes with
\* a true dirty flag.
C19_CleanIsCurrent ==
    ~crashed =>
        \A e \in Slots :
            (/\ IsExpr(heap, e)
             /\ heap[e].m_eval_policy \in {"Instant", "Lazy"}
             /\ ~heap[e].m_dirty) =>
                heap[e].m_value = Current(heap, e)

\* Every derived node has the evaluation policy Instant.
AllInstant(h) == \A e \in Slots : IsExpr(h, e) => h[e].m_eval_policy = "Instant"

\* C20: in a graph whose derived nodes are all Instant, one set on a leaf
\* stores a value in each derived node at most once (its final value), and
\* every function call the set makes receives, for each input, the value
\* that input holds when the set returns: no value computed from inputs some
\* of which were not yet updated is stored or passed on.
C20_GlitchFree ==
    (op.name = "set" /\ ~crashed /\ AllInstant(heap)) =>
        /\ \A e \in Slots : IsExpr(heap, e) => Times(trace, "store", e) <= 1
        /\ \A k \in 1..Len(trace) :
              trace[k].ev = "call" =>
                  trace[k].args = InputValues(heap, trace[k].node)

====
